---- MODULE Spec2Model ----
(***************************************************************************)
(* Model of train.py: the training script of the convolutional            *)
(* autoencoder.  One run of main(args) is modelled statement block by      *)
(* statement block; pc is the position of the run in main, and a raised    *)
(* exception ends the run in pc = "raised" (main has no try/except).       *)
(***************************************************************************)
EXTENDS Integers, Sequences, FiniteSets, TLC

\* ------------------------------------------------------------------ bounds
MaxDecades == 2      \* the training directory holds 0, 10, .. 10*MaxDecades files
MaxBatch == 2        \* args.batch ranges over 1..MaxBatch
MaxLrFind == 1       \* args.lr_find ranges over 0..MaxLrFind
MaxPix == 1          \* pixel values range over 0..MaxPix
WinSide == 3         \* pixels in a window; images are WinSide + 1 wide
Scale == 100         \* fixed-point unit: the real 1.0

\* ------------------------------------------------------- program constants
NbImagesDefault == 10000     \* default of --nb-images
ValidationSplitPct == 10     \* validation_split = 0.1, as a percentage
K1Pct == 1                   \* K1 = 0.01 of the stability constant C1
K2Pct == 3                   \* K2 = 0.03 of the stability constant C2

\* ------------------------------------------------------------------ strings
\* The loss argument is a string that main upper-cases; it is modelled as a
\* sequence of characters so that str.upper() is computed, not assumed.
LowerChars == <<"s", "i", "m", "l", "e">>
UpperChars == <<"S", "I", "M", "L", "E">>

UpperChar(c) ==
    IF \E i \in 1..Len(LowerChars) : LowerChars[i] = c
    THEN UpperChars[CHOOSE i \in 1..Len(LowerChars) : LowerChars[i] = c]
    ELSE c

Upper(s) == [i \in 1..Len(s) |-> UpperChar(s[i])]

SSIM == <<"S", "S", "I", "M">>
MSSIM == <<"M", "S", "S", "I", "M">>
L2 == <<"L", "2">>
MSE == <<"M", "S", "E">>

\* choices of --architecture, --color and --loss (the latter also in the
\* upper-case and capitalised spellings main accepts when called directly)
Architectures == {"mvtec", "mvtec2", "resnet", "nasnet"}
ColorModes == {"grayscale", "rgb"}
LossChoices ==
    { <<"s", "s", "i", "m">>, <<"m", "s", "s", "i", "m">>, <<"l", "2">>, <<"m", "s", "e">>,
      <<"S", "s", "i", "m">>, <<"M", "s", "s", "i", "m">>, <<"L", "2">>, <<"M", "s", "e">>,
      SSIM, MSSIM, MSE }

VARIABLES
    \* args
    architecture, color_mode, args_loss, lr_find, batch_size, nb_files, user_input,
    \* locals of main
    loss, channels, resmaps_mode, metrics, model, loss_function,
    save_dir, log_dir, shape, train_samples, val_samples, generators, epochs,
    compiled, weights, max_lr, inspection_generator,
    imgs_val_input, filenames, imgs_val_pred, resmaps_val, reduced,
    saved_pred, saved_resmap,
    \* control
    pc, error, trace,
    \* one (input, reconstruction) pair and what the loss and the residual-map
    \* engine compute from it
    x_true, x_pred, ssim_map, resmap, score, loss_value, stage

args == <<architecture, color_mode, args_loss, lr_find, batch_size, nb_files, user_input>>
setup == <<loss, channels, resmaps_mode, metrics, model, loss_function>>
dirs == <<save_dir, log_dir>>
data == <<shape, train_samples, val_samples, generators, epochs>>
training == <<compiled, weights, max_lr>>
inspection == <<inspection_generator, imgs_val_input, filenames, imgs_val_pred,
                resmaps_val, reduced, saved_pred, saved_resmap>>
numeric == <<x_true, x_pred, ssim_map, resmap, score, loss_value, stage>>
vars == <<args, setup, dirs, data, training, inspection, pc, error, trace, numeric>>

Unbound == "unbound"
NoResmap == [src |-> <<>>, channels |-> 0, mode |-> Unbound]
NoSave == [imgs |-> <<>>, channels |-> 0, names |-> <<>>]

Min(a, b) == IF a < b THEN a ELSE b

\* a raised exception propagates out of main: nothing catches it
Raise(e) == /\ pc' = "raised"
            /\ error' = e

Goto(l) == /\ pc' = l
           /\ error' = error

Init ==
    /\ architecture \in Architectures
    /\ color_mode \in ColorModes
    /\ args_loss \in LossChoices
    /\ lr_find \in 0..MaxLrFind
    /\ batch_size \in 1..MaxBatch
    /\ nb_files \in {10 * k : k \in 0..MaxDecades}
    /\ user_input \in {"float", "text"}
    /\ loss = <<>>
    /\ channels = 0
    /\ resmaps_mode = Unbound
    /\ metrics = Unbound
    /\ model = Unbound
    /\ loss_function = Unbound
    /\ save_dir = FALSE
    /\ log_dir = FALSE
    /\ shape = 0
    /\ train_samples = 0
    /\ val_samples = 0
    /\ generators = {}
    /\ epochs = 0
    /\ compiled = FALSE
    /\ weights = "initial"
    /\ max_lr = Unbound
    /\ inspection_generator = 0
    /\ imgs_val_input = <<>>
    /\ filenames = <<>>
    /\ imgs_val_pred = <<>>
    /\ resmaps_val = NoResmap
    /\ reduced = FALSE
    /\ saved_pred = NoSave
    /\ saved_resmap = NoSave
    /\ pc = "setup"
    /\ error = "none"
    /\ trace = <<>>
    /\ x_true = <<>>
    /\ x_pred = <<>>
    /\ ssim_map = <<>>
    /\ resmap = <<>>
    /\ score = 0
    /\ loss_value = 0
    /\ stage = "none"

\* ------------------------------------------------------------------- SETUP
\* lines 57-65: read the arguments; loss = args.loss.upper()
Setup ==
    /\ pc = "setup"
    /\ loss' = Upper(args_loss)
    /\ Goto("check_args")
    /\ UNCHANGED <<numeric, args, channels, resmaps_mode, metrics, model, loss_function,
                   dirs, data, training, inspection, trace>>

\* lines 67-75: the error the argument check raises, "none" when it passes
ArgumentError(a, c, l) ==
    IF a = "resnet" /\ c = "grayscale" THEN "ValueError: ResNet expects rgb images"
    ELSE IF a = "nasnet" /\ c = "grayscale" THEN "ValueError: NasNet expects rgb images"
    ELSE IF l = MSSIM /\ c = "grayscale" THEN "ValueError: MSSIM works only with rgb images"
    ELSE IF l = SSIM /\ c = "rgb" THEN "ValueError: SSIM works only with grayscale images"
    ELSE "none"

CheckArguments ==
    /\ pc = "check_args"
    /\ IF ArgumentError(architecture, color_mode, loss) # "none"
       THEN Raise(ArgumentError(architecture, color_mode, loss))
       ELSE Goto("set_channels")
    /\ UNCHANGED <<numeric, args, setup, dirs, data, training, inspection, trace>>

\* lines 77-85: channels, residual-map mode and monitored metric by color mode
ChannelsFor(c) == IF c = "grayscale" THEN 1 ELSE IF c = "rgb" THEN 3 ELSE 0

\* faulty variant: the rgb branch copies the grayscale mode
ResmapsModeFor_AlwaysSSIM(c) ==
    IF c = "grayscale" THEN "SSIM" ELSE IF c = "rgb" THEN "SSIM" ELSE Unbound

ResmapsModeFor(c) ==
    IF c = "grayscale" THEN "SSIM" ELSE IF c = "rgb" THEN "MSSIM" ELSE Unbound

MetricsFor(c) ==
    IF c = "grayscale" THEN "ssim_metric" ELSE IF c = "rgb" THEN "mssim_metric" ELSE Unbound

SetChannels ==
    /\ pc = "set_channels"
    /\ channels' = ChannelsFor(color_mode)
    /\ resmaps_mode' = ResmapsModeFor(color_mode)
    /\ metrics' = MetricsFor(color_mode)
    /\ Goto("build_model")
    /\ UNCHANGED <<numeric, args, loss, model, loss_function, dirs, data, training,
                   inspection, trace>>

\* lines 87-97: the model each architecture builds
BuiltModel(a) ==
    IF a = "mvtec" THEN "mvtec"
    ELSE IF a = "mvtec2" THEN "mvtec_2"
    ELSE IF a = "resnet" THEN "resnet"
    ELSE Unbound

\* lines 87-97: build the model; the nasnet branch raises
BuildModel ==
    /\ pc = "build_model"
    /\ IF architecture = "nasnet"
       THEN /\ Raise("Exception: Nasnet ist not yet implemented.")
            /\ model' = model
       ELSE /\ model' = BuiltModel(architecture)
            /\ Goto("set_loss")
    /\ UNCHANGED <<numeric, args, loss, channels, resmaps_mode, metrics, loss_function,
                   dirs, data, training, inspection, trace>>

\* faulty variant: the MSE branch is never taken
LossFunctionFor_NoMse(l) ==
    IF l = SSIM THEN "loss_functions.ssim_loss"
    ELSE IF l = MSSIM THEN "loss_functions.mssim_loss"
    ELSE IF l = L2 THEN "loss_functions.l2_loss"
    ELSE Unbound

\* faulty variant: the MSE branch binds the L2 loss
LossFunctionFor_MseAsL2(l) ==
    IF l = SSIM THEN "loss_functions.ssim_loss"
    ELSE IF l = MSSIM THEN "loss_functions.mssim_loss"
    ELSE IF l = L2 THEN "loss_functions.l2_loss"
    ELSE IF l = MSE THEN "loss_functions.l2_loss"
    ELSE Unbound

\* lines 99-107: the loss function bound for each value of loss
LossFunctionFor(l) ==
    IF l = SSIM THEN "loss_functions.ssim_loss"
    ELSE IF l = MSSIM THEN "loss_functions.mssim_loss"
    ELSE IF l = L2 THEN "loss_functions.l2_loss"
    ELSE IF l = MSE THEN "mean_squared_error"
    ELSE Unbound

SetLossFunction ==
    /\ pc = "set_loss"
    /\ loss_function' = LossFunctionFor(loss)
    /\ Goto("makedirs")
    /\ UNCHANGED <<numeric, args, loss, channels, resmaps_mode, metrics, model,
                   dirs, data, training, inspection, trace>>

\* faulty variant: the directories are created before the arguments are checked
MakeDirs_BeforeCheck ==
    /\ \/ pc = "check_args" /\ ~save_dir /\ Goto("check_args")
       \/ pc = "makedirs" /\ Goto("preprocessing")
    /\ save_dir' = TRUE
    /\ log_dir' = TRUE
    /\ UNCHANGED <<numeric, args, setup, data, training, inspection, trace>>

\* lines 109-122: create save_dir and save_dir/logs
MakeDirs ==
    /\ pc = "makedirs"
    /\ save_dir' = TRUE
    /\ log_dir' = TRUE
    /\ Goto("preprocessing")
    /\ UNCHANGED <<numeric, args, setup, data, training, inspection, trace>>

\* --------------------------------------------------------- PREPROCESSING
\* lines 142-157: side of the target shape by architecture
ShapeFor(a) ==
    IF a \in {"mvtec", "mvtec2"} THEN 256
    ELSE IF a = "resnet" THEN 299
    ELSE IF a = "nasnet" THEN 224
    ELSE 0

\* ImageDataGenerator(validation_split): the first int(split * n) files are
\* the validation subset, the rest the training subset
ValidationSamples(n) == (n * ValidationSplitPct) \div 100

TrainingSamples(n) == n - ValidationSamples(n)

\* lines 142-212: preprocessing setup, train_generator and validation_generator
BuildGenerators ==
    /\ pc = "preprocessing"
    /\ shape' = ShapeFor(architecture)
    /\ train_samples' = TrainingSamples(nb_files)
    /\ val_samples' = ValidationSamples(nb_files)
    /\ generators' = {"train_generator", "validation_generator"}
    /\ Goto("epochs")
    /\ UNCHANGED <<numeric, args, setup, dirs, epochs, training, inspection, trace>>

\* line 218: epochs = nb_training_images_aug // train_generator.samples
CalculateEpochs ==
    /\ pc = "epochs"
    /\ IF train_samples = 0
       THEN /\ Raise("ZeroDivisionError")
            /\ epochs' = epochs
       ELSE /\ epochs' = NbImagesDefault \div train_samples
            /\ Goto("compile")
    /\ UNCHANGED <<numeric, args, setup, dirs, shape, train_samples, val_samples, generators,
                   training, inspection, trace>>

\* -------------------------------------------------------------- TRAINING
\* lines 222-238: model.compile(loss=loss_function, metrics=metrics) and
\* ktrain.get_learner; reading an unbound local raises UnboundLocalError
Compile ==
    /\ pc = "compile"
    /\ IF loss_function = Unbound \/ metrics = Unbound
       THEN /\ Raise("UnboundLocalError")
            /\ UNCHANGED <<compiled, trace>>
       ELSE /\ compiled' = TRUE
            /\ trace' = Append(trace, "compile")
            /\ Goto("lr_branch")
    /\ UNCHANGED <<numeric, args, setup, dirs, data, weights, max_lr, inspection>>

\* line 240: if args.lr_find > 0
LrBranch ==
    /\ pc = "lr_branch"
    /\ IF lr_find > 0 THEN Goto("lr_find") ELSE Goto("fit_onecycle")
    /\ UNCHANGED <<numeric, args, setup, dirs, data, training, inspection, trace>>

\* lines 242-258: learner.lr_find trains the model over a range of rates
LrFind ==
    /\ pc = "lr_find"
    /\ weights' = "probed"
    /\ trace' = Append(trace, "lr_find")
    /\ Goto("input_lr")
    /\ UNCHANGED <<numeric, args, setup, dirs, data, compiled, max_lr, inspection>>

\* line 260: max_lr = float(input(...)); float raises ValueError on text
InputMaxLr ==
    /\ pc = "input_lr"
    /\ IF user_input = "float"
       THEN /\ max_lr' = "entered"
            /\ Goto("reset_weights")
       ELSE /\ Raise("ValueError: could not convert string to float")
            /\ max_lr' = max_lr
    /\ UNCHANGED <<numeric, args, setup, dirs, data, compiled, weights, inspection, trace>>

\* faulty variant: the weights the finder trained are kept
ResetWeights_Skipped ==
    /\ pc = "reset_weights"
    /\ trace' = Append(trace, "reset_weights")
    /\ Goto("fit_onecycle")
    /\ UNCHANGED <<numeric, args, setup, dirs, data, training, inspection>>

\* line 261: learner.reset_weights()
ResetWeights ==
    /\ pc = "reset_weights"
    /\ weights' = "initial"
    /\ trace' = Append(trace, "reset_weights")
    /\ Goto("fit_onecycle")
    /\ UNCHANGED <<numeric, args, setup, dirs, data, compiled, max_lr, inspection>>

\* lines 266-273: learner.fit_onecycle(lr=max_lr, epochs=epochs, ...)
FitOnecycle ==
    /\ pc = "fit_onecycle"
    /\ IF max_lr = Unbound
       THEN /\ Raise("UnboundLocalError")
            /\ UNCHANGED <<weights, trace>>
       ELSE /\ weights' = IF weights = "initial" THEN "trained" ELSE "trained_from_probed"
            /\ trace' = Append(trace, "fit_onecycle")
            /\ Goto("save_model")
    /\ UNCHANGED <<numeric, args, setup, dirs, data, compiled, max_lr, inspection>>

\* lines 276-292: save the model, then the loss and lr plots
SaveModel ==
    /\ pc = "save_model"
    /\ trace' = Append(trace, "save_model")
    /\ Goto("setup_json")
    /\ UNCHANGED <<numeric, args, setup, dirs, data, training, inspection>>

\* lines 294-323: write setup.json
WriteSetup ==
    /\ pc = "setup_json"
    /\ trace' = Append(trace, "setup_json")
    /\ Goto("inspection_generator")
    /\ UNCHANGED <<numeric, args, setup, dirs, data, training, inspection>>

\* ------------------------------------------------------------ INSPECTION
\* lines 326-334: inspection_generator, unshuffled, with
\* batch_size = validation_generator.samples; the state is its batch size
BuildInspectionGenerator ==
    /\ pc = "inspection_generator"
    /\ inspection_generator' = val_samples
    /\ generators' = generators \cup {"inspection_generator"}
    /\ Goto("next_batch")
    /\ UNCHANGED <<numeric, args, setup, dirs, shape, train_samples, val_samples, epochs,
                   training, imgs_val_input, filenames, imgs_val_pred, resmaps_val,
                   reduced, saved_pred, saved_resmap, trace>>

\* The batches next() of a directory iterator over n files can return first.
\* Files are numbered 1..n in directory order; a shuffling iterator draws a
\* fresh permutation and returns its first Min(b, n) indices, an unshuffled
\* one returns the first Min(b, n) files in order.
FirstBatches(n, b, shuffle) ==
    IF shuffle
    THEN {s \in [1..Min(b, n) -> 1..n] : \A i, j \in 1..Min(b, n) : s[i] = s[j] => i = j}
    ELSE {[i \in 1..Min(b, n) |-> i]}

\* lines 335-336: imgs_val_input = validation_generator.next()[0] with
\* validation_generator built with batch_size and shuffle=True (lines 204-212);
\* filenames = validation_generator.filenames, all files in directory order
NextBatch ==
    /\ pc = "next_batch"
    /\ \E b \in FirstBatches(val_samples, batch_size, TRUE) : imgs_val_input' = b
    /\ filenames' = [i \in 1..val_samples |-> i]
    /\ Goto("predict")
    /\ UNCHANGED <<numeric, args, setup, dirs, data, training, inspection_generator,
                   imgs_val_pred, resmaps_val, reduced, saved_pred, saved_resmap, trace>>

\* line 337: imgs_val_pred = model.predict(imgs_val_input); the i-th
\* prediction is the reconstruction of the i-th input image
Predict ==
    /\ pc = "predict"
    /\ imgs_val_pred' = [i \in 1..Len(imgs_val_input) |-> imgs_val_input[i]]
    /\ trace' = Append(trace, "predict")
    /\ Goto("calculate_resmaps")
    /\ UNCHANGED <<numeric, args, setup, dirs, data, training, inspection_generator,
                   imgs_val_input, filenames, resmaps_val, reduced, saved_pred,
                   saved_resmap>>

\* modules.resmaps.calculate_resmaps: channels of the map it returns
ResmapChannels(mode) == 1

\* line 338: resmaps_val = calculate_resmaps(imgs_val_input, imgs_val_pred,
\* loss=resmaps_mode)
CalculateResmaps ==
    /\ pc = "calculate_resmaps"
    /\ resmaps_val' = [src |-> imgs_val_input, channels |-> ResmapChannels(resmaps_mode),
                       mode |-> resmaps_mode]
    /\ trace' = Append(trace, "calculate_resmaps")
    /\ Goto("to_grayscale")
    /\ UNCHANGED <<numeric, args, setup, dirs, data, training, inspection_generator,
                   imgs_val_input, filenames, imgs_val_pred, reduced, saved_pred,
                   saved_resmap>>

\* lines 340-341: if color_mode == "rgb": tf.image.rgb_to_grayscale, which
\* needs a last dimension of size 3 and fails on any other
ToGrayscale ==
    /\ pc = "to_grayscale"
    /\ IF color_mode = "rgb"
       THEN /\ reduced' = TRUE
            /\ IF resmaps_val.channels = 3
               THEN /\ resmaps_val' = [resmaps_val EXCEPT !.channels = 1]
                    /\ Goto("save_images")
               ELSE /\ Raise("InvalidArgumentError")
                    /\ resmaps_val' = resmaps_val
       ELSE /\ Goto("save_images")
            /\ UNCHANGED <<resmaps_val, reduced>>
    /\ UNCHANGED <<numeric, args, setup, dirs, data, training, inspection_generator,
                   imgs_val_input, filenames, imgs_val_pred, saved_pred,
                   saved_resmap, trace>>

\* lines 343-347: utils.save_images(.., imgs_val_pred, filenames, .., "pred")
\* and utils.save_images(.., resmaps_val, filenames, .., "resmap")
SaveImages ==
    /\ pc = "save_images"
    /\ saved_pred' = [imgs |-> imgs_val_pred, channels |-> channels, names |-> filenames]
    /\ saved_resmap' = [imgs |-> resmaps_val.src, channels |-> resmaps_val.channels,
                        names |-> filenames]
    /\ trace' = Append(trace, "save_images")
    /\ Goto("done")
    /\ UNCHANGED <<numeric, args, setup, dirs, data, training, inspection_generator,
                   imgs_val_input, filenames, imgs_val_pred, resmaps_val, reduced>>

Next ==
    \/ Setup
    \/ CheckArguments
    \/ SetChannels
    \/ BuildModel
    \/ SetLossFunction
    \/ MakeDirs
    \/ BuildGenerators
    \/ CalculateEpochs
    \/ Compile
    \/ LrBranch
    \/ LrFind
    \/ InputMaxLr
    \/ ResetWeights
    \/ FitOnecycle
    \/ SaveModel
    \/ WriteSetup
    \/ BuildInspectionGenerator
    \/ NextBatch
    \/ Predict
    \/ CalculateResmaps
    \/ ToGrayscale
    \/ SaveImages

Spec == Init /\ [][Next]_vars

\* =========================================== loss and residual-map engine
\* modules.loss_functions and modules.resmaps, evaluated on one (input,
\* reconstruction) pair under a configuration main accepts.  An image is a
\* sequence of channels, a channel a scanline of ImgW pixels in 0..MaxPix;
\* real values are fixed-point numbers in units of 1/Scale.
ImgW == WinSide + 1

NWin == ImgW - WinSide + 1

Pixels == 0..MaxPix

Channel == [1..ImgW -> Pixels]

\* a second and third channel: flat, equal to the first, or its negative
DerivedChannel(ch, kind) ==
    IF kind = "flat" THEN [i \in 1..ImgW |-> 0]
    ELSE IF kind = "same" THEN ch
    ELSE [i \in 1..ImgW |-> MaxPix - ch[i]]

Images(c) ==
    IF c = 1 THEN {<<ch>> : ch \in Channel}
    ELSE {<<ch, DerivedChannel(ch, k2), DerivedChannel(ch, k3)>> :
              ch \in Channel, k2 \in {"flat", "same", "negative"},
              k3 \in {"flat", "same", "negative"}}

\* what the model returns for x: x itself, or x with one pixel of the first
\* channel changed
Reconstructions(x) ==
    {x} \cup {[x EXCEPT ![1][i] = (x[1][i] + 1) % (MaxPix + 1)] : i \in 1..ImgW}

RECURSIVE SumTo(_, _)
SumTo(f, n) == IF n = 0 THEN 0 ELSE f[n] + SumTo(f, n - 1)

Sum(f) == SumTo(f, Len(f))

Mean(f) == Sum(f) \div Len(f)

\* WindowedStatistics: sums over the window of WinSide pixels starting at p
\* ("valid" policy: only windows inside the image)
WinSum(a, b, p) == Sum([i \in 1..WinSide |-> a[p + i - 1] * b[p + i - 1]])

Ones == [i \in 1..ImgW |-> 1]

\* stability constants C1 = (K1 L)^2, C2 = (K2 L)^2 with K1 = K1Pct/100,
\* K2 = K2Pct/100 and dynamic range L = MaxPix, scaled by 100^2 WinSide^2
StabC1 == K1Pct * K1Pct * MaxPix * MaxPix * WinSide * WinSide

StabC2 == K2Pct * K2Pct * MaxPix * MaxPix * WinSide * WinSide

\* StructuralSimilarityMap at one window: luminance term times
\* contrast-structure term
Ssim(a, b, p) ==
    LET Sx == WinSum(a, Ones, p)
        Sy == WinSum(b, Ones, p)
        Sxx == WinSum(a, a, p)
        Syy == WinSum(b, b, p)
        Sxy == WinSum(a, b, p)
        lumNum == 2 * Sx * Sy * 10000 + StabC1
        lumDen == (Sx * Sx + Sy * Sy) * 10000 + StabC1
        csNum == 2 * (WinSide * Sxy - Sx * Sy) * 10000 + StabC2
        csDen == (WinSide * Sxx - Sx * Sx + WinSide * Syy - Sy * Sy) * 10000 + StabC2
    IN (((Scale * lumNum) \div lumDen) * ((Scale * csNum) \div csDen)) \div Scale

ChannelSsimMap(a, b) == [p \in 1..NWin |-> Ssim(a, b, p)]

\* the similarity map of a pair: per channel, then the arithmetic mean of
\* the channel maps
SsimMap(x, y) ==
    [p \in 1..NWin |-> Mean([c \in 1..Len(x) |-> ChannelSsimMap(x[c], y[c])[p]])]

Clip(v) == IF v < 0 THEN 0 ELSE IF v > Scale THEN Scale ELSE v

\* ResidualMapEngine.compute_resmap for the modes main requests:
\* dissimilarity 1 - similarity, clipped to [0, 1]
ResmapError(x, mode) ==
    IF mode \notin {"SSIM", "MSSIM"} THEN "InvalidModeError"
    ELSE IF mode = "SSIM" /\ Len(x) # 1 THEN "ChannelMismatchError"
    ELSE IF mode = "MSSIM" /\ Len(x) = 1 THEN "ChannelMismatchError"
    ELSE "none"

ComputeResmap(x, y) == [p \in 1..NWin |-> Clip(Scale - SsimMap(x, y)[p])]

\* ResidualMapEngine.summary_score: the mean over all pixels
SummaryScore(r) == Mean(r)

SquaredError(x, y) ==
    Mean([k \in 1..(Len(x) * ImgW) |->
             LET c == ((k - 1) \div ImgW) + 1
                 i == ((k - 1) % ImgW) + 1
             IN Scale * (x[c][i] - y[c][i]) * (x[c][i] - y[c][i])])

\* LossFunctions: the value of the loss main bound, -1 when it cannot be
\* evaluated on the pair
LossValue(f, x, y) ==
    IF f = "loss_functions.ssim_loss"
    THEN IF Len(x) = 1 THEN Scale - Mean(SsimMap(x, y)) ELSE -1
    ELSE IF f = "loss_functions.mssim_loss"
    THEN IF Len(x) > 1 THEN Scale - Mean(SsimMap(x, y)) ELSE -1
    ELSE IF f = "loss_functions.l2_loss" THEN SquaredError(x, y)
    ELSE IF f = "mean_squared_error" THEN SquaredError(x, y)
    ELSE -1

\* the state of a run of main that accepted its configuration and trained,
\* with one image pair of the configuration's channel count
InitLoss ==
    /\ architecture = "mvtec"
    /\ color_mode \in ColorModes
    /\ args_loss \in {l \in LossChoices : Upper(l) # l}
    /\ lr_find = 1
    /\ batch_size = 1
    /\ nb_files = 10
    /\ user_input = "float"
    /\ loss = Upper(args_loss)
    /\ ArgumentError(architecture, color_mode, loss) = "none"
    /\ channels = ChannelsFor(color_mode)
    /\ resmaps_mode = ResmapsModeFor(color_mode)
    /\ metrics = MetricsFor(color_mode)
    /\ model = BuiltModel(architecture)
    /\ loss_function = LossFunctionFor(loss)
    /\ save_dir = TRUE
    /\ log_dir = TRUE
    /\ shape = ShapeFor(architecture)
    /\ train_samples = TrainingSamples(nb_files)
    /\ val_samples = ValidationSamples(nb_files)
    /\ generators = {"train_generator", "validation_generator"}
    /\ epochs = NbImagesDefault \div train_samples
    /\ compiled = TRUE
    /\ weights = "initial"
    /\ max_lr = "entered"
    /\ inspection_generator = 0
    /\ imgs_val_input = <<>>
    /\ filenames = <<>>
    /\ imgs_val_pred = <<>>
    /\ resmaps_val = NoResmap
    /\ reduced = FALSE
    /\ saved_pred = NoSave
    /\ saved_resmap = NoSave
    /\ pc = "fit_onecycle"
    /\ error = "none"
    /\ trace = <<"compile", "lr_find", "reset_weights">>
    /\ x_true \in Images(channels)
    /\ x_pred \in Reconstructions(x_true)
    /\ ssim_map = <<>>
    /\ resmap = <<>>
    /\ score = 0
    /\ loss_value = 0
    /\ stage = "pair"

main_vars == <<args, setup, dirs, data, training, inspection, pc, trace>>

\* one optimisation step: the loss of the pair
EvaluateLoss ==
    /\ stage = "pair"
    /\ loss_value' = LossValue(loss_function, x_true, x_pred)
    /\ stage' = "loss"
    /\ UNCHANGED <<main_vars, error, x_true, x_pred, ssim_map, resmap, score>>

\* calculate_resmaps(x_true, x_pred, loss=resmaps_mode) on the pair
CalculateResmapOfPair ==
    /\ stage = "loss"
    /\ IF ResmapError(x_true, resmaps_mode) # "none"
       THEN /\ error' = ResmapError(x_true, resmaps_mode)
            /\ stage' = "raised"
            /\ UNCHANGED <<ssim_map, resmap>>
       ELSE /\ ssim_map' = SsimMap(x_true, x_pred)
            /\ resmap' = ComputeResmap(x_true, x_pred)
            /\ stage' = "resmap"
            /\ error' = error
    /\ UNCHANGED <<main_vars, x_true, x_pred, score, loss_value>>

\* summary_score(resmap)
ScoreResmap ==
    /\ stage = "resmap"
    /\ score' = SummaryScore(resmap)
    /\ stage' = "score"
    /\ UNCHANGED <<main_vars, error, x_true, x_pred, ssim_map, resmap, loss_value>>

NextLoss ==
    \/ EvaluateLoss
    \/ CalculateResmapOfPair
    \/ ScoreResmap

SpecLoss == InitLoss /\ [][NextLoss]_vars

\* ================================================================= claims
ConfigErrors ==
    { "ValueError: ResNet expects rgb images",
      "ValueError: NasNet expects rgb images",
      "ValueError: MSSIM works only with rgb images",
      "ValueError: SSIM works only with grayscale images",
      "Exception: Nasnet ist not yet implemented." }

\* main rejected the configuration
Rejected == pc = "raised" /\ error \in ConfigErrors

\* main got past argument checking and model building
Accepted ==
    \/ pc \notin {"setup", "check_args", "set_channels", "build_model", "raised"}
    \/ pc = "raised" /\ error \notin ConfigErrors

Has(step) == \E i \in 1..Len(trace) : trace[i] = step

\* lines 36-51: the docstring's table of valid arguments
DocTableValid(a, c, l) ==
    \/ c = "grayscale" /\ a \in {"mvtec", "mvtec2"} /\ l \in {SSIM, L2, MSE}
    \/ c = "rgb" /\ a \in {"mvtec", "mvtec2", "resnet", "nasnet"} /\ l \in {MSSIM, L2, MSE}

\* C1: main accepts (architecture, color_mode, loss) if and only if the
\* docstring's table lists the combination as valid.
C1_AcceptedIffTableValid ==
    /\ Accepted => DocTableValid(architecture, color_mode, loss)
    /\ Rejected => ~DocTableValid(architecture, color_mode, loss)

\* the variant of each loss main can bind: Keras's "mean_squared_error" is a
\* squared error, as is the L2 loss
LossVariant(f) ==
    IF f = "loss_functions.ssim_loss" THEN "ssim_single_channel"
    ELSE IF f = "loss_functions.mssim_loss" THEN "ssim_multi_channel"
    ELSE IF f = "loss_functions.l2_loss" THEN "squared_error"
    ELSE IF f = "mean_squared_error" THEN "squared_error"
    ELSE "none"

AcceptedLosses == {SSIM, MSSIM, L2, MSE}

LossBound ==
    /\ loss \in AcceptedLosses
    /\ loss_function # Unbound
    /\ \A l \in AcceptedLosses : LossFunctionFor(l) = loss_function <=> l = loss

C3_ResmapsModeByColor ==
    (pc = "calculate_resmaps" \/ Has("calculate_resmaps")) =>
        /\ color_mode = "grayscale" =>
               resmaps_mode = "SSIM" /\ channels = 1 /\ metrics = "ssim_metric"
        /\ color_mode = "rgb" =>
               resmaps_mode = "MSSIM" /\ channels = 3 /\ metrics = "mssim_metric"
        /\ Has("calculate_resmaps") => resmaps_val.mode = resmaps_mode

C3_Witness ==
    /\ Has("calculate_resmaps")
    /\ color_mode = "rgb"
    /\ loss = L2
    /\ resmaps_val.mode = "MSSIM"

\* C4: a rejected configuration is rejected before any directory is created,
\* any generator built, the model compiled or trained, and the error ends
\* the run: nothing catches it and nothing is retried.
C4_RejectionLeavesNoTrace ==
    Rejected =>
        /\ ~save_dir
        /\ ~log_dir
        /\ generators = {}
        /\ ~compiled
        /\ weights = "initial"
        /\ trace = <<>>
        /\ ~ENABLED Next

C4_Witness ==
    /\ Rejected
    /\ error = "Exception: Nasnet ist not yet implemented."
    /\ color_mode = "rgb"

\* C5: the input tensor passed to model.predict and calculate_resmaps holds
\* all validation images, one full unshuffled batch.
C5_FullValidationBatch ==
    Has("predict") =>
        /\ Len(imgs_val_input) = val_samples
        /\ imgs_val_input = [i \in 1..val_samples |-> i]

\* C6: the residual map calculate_resmaps returns is single-channel in both
\* modes, the resmap handed to save_images is single-channel in both color
\* modes, and no further channel reduction of the engine's output is made.
C6_SingleChannelNoReduction ==
    /\ Has("calculate_resmaps") => resmaps_val.channels = 1
    /\ ~reduced
    /\ pc = "raised" => error # "InvalidArgumentError"
    /\ Has("save_images") => saved_resmap.channels = 1

\* C8: fit_onecycle is always reached with a bound max_lr, with and without
\* the learning-rate finder.
C8_MaxLrBound ==
    /\ pc = "fit_onecycle" => max_lr # Unbound
    /\ (pc = "raised" /\ Has("compile")) => error # "UnboundLocalError"

ExpectedTrace ==
    <<"compile">>
    \o (IF lr_find > 0 THEN <<"lr_find", "reset_weights">> ELSE <<>>)
    \o <<"fit_onecycle", "save_model", "setup_json", "predict",
         "calculate_resmaps", "save_images">>

C10_ArtifactsMatchFilenames ==
    Has("save_images") =>
        /\ Len(saved_pred.names) = Len(saved_pred.imgs)
        /\ Len(saved_resmap.names) = Len(saved_resmap.imgs)
        /\ \A i \in 1..Len(saved_pred.imgs) : saved_pred.imgs[i] = saved_pred.names[i]
        /\ \A i \in 1..Len(saved_resmap.imgs) : saved_resmap.imgs[i] = saved_resmap.names[i]

\* C7: when the reconstruction equals the input, the similarity map is 1
\* everywhere, the residual map 0 everywhere, summary_score 0 and the loss
\* the script selected (ssim, mssim, l2 or mse) 0.
C7_IdentityPairIsZero ==
    x_pred = x_true =>
        /\ stage # "raised"
        /\ stage \in {"loss", "resmap", "score"} => loss_value = 0
        /\ stage \in {"resmap", "score"} =>
               /\ Len(ssim_map) = NWin
               /\ \A p \in 1..NWin : ssim_map[p] = Scale /\ resmap[p] = 0
        /\ stage = "score" => score = 0

C7_Witness ==
    /\ stage = "score"
    /\ x_pred = x_true
    /\ color_mode = "rgb"
    /\ loss_function = "loss_functions.mssim_loss"
    /\ \E i \in 1..ImgW : x_true[1][i] # x_true[2][i]
    /\ score = 0
====
